---- MODULE Spec2Model ----
(***************************************************************************)
(* Model of the flashcard API of app/main.py: the cards and categories     *)
(* tables, the wall clock, and one action per request handler.  Each       *)
(* action leaves the response it produced in the variable response.       *)
(* sessions holds the record_study requests that are being handled while   *)
(* other requests run: the row each has loaded, and how it ended.          *)
(* Time is counted in clock ticks, TicksPerDay ticks to a UTC calendar     *)
(* day; a nullable column holds <<>> (NULL) or <<v>>.                      *)
(***************************************************************************)
EXTENDS Integers, Sequences, FiniteSets, TLC

VARIABLES cards, categories, now, response, sessions

vars == <<cards, categories, now, response, sessions>>

(* ------------------------------ bounds -------------------------------- *)
TicksPerDay == 2
MaxNow == 1
MaxCards == 1
MaxCategories == 1
MaxStudy == 1
MaxDeepStudy == 12
MaxDeepNow == 2
MaxListCards == 2
MaxDueCards == 2
MaxDueNow == 3
MaxDueStudy == 1
MaxOwnStudy == 1
MaxHandlers == 2
MaxConcNow == 1
MaxPolicyHandlers == 5

(* ------------------------- program constants -------------------------- *)
MinMultiplier == 3
MaxMultiplier == 5
MaxIntervalDays == 30
ImportTime == 0

Users == {"alice", "bob"}

(* --------------------------- nullable values -------------------------- *)
Null == <<>>
Some(v) == <<v>>

\* a Python dict with no keys
EmptyDict == [k \in {} |-> k]

Min(a, b) == IF a <= b THEN a ELSE b

\* timedelta(days=d) in ticks
Days(d) == d * TicksPerDay

\* t.replace(hour=0, minute=0, second=0, microsecond=0)
DayStart(t) == t - (t % TicksPerDay)

\* variant: the day is added and the time of day kept
NextDayStartKeepsTime(t) == t + Days(1)

\* (now + timedelta(days=1)).replace(hour=0, minute=0, second=0, microsecond=0)
NextDayStart(t) == DayStart(t + Days(1))

\* the integer primary key the store gives a new row
NewId(ids) == IF ids = {} THEN 1 ELSE (CHOOSE m \in ids : \A i \in ids : i <= m) + 1

\* no request answered yet
NoResponse == [status |-> 0, body |-> [none |-> TRUE]]

\* an HTTP response: 200 with the handler's return value
Ok(body) == [status |-> 200, body |-> body]

\* raise HTTPException(status_code=code, detail=detail)
HTTPException(code, detail) == [status |-> code, body |-> [detail |-> detail]]

(* ----------------------------- the store ------------------------------ *)
\* variant: the owner is not part of the filter
FindCardAnyOwner(u, id) ==
    IF id \in DOMAIN cards THEN Some(cards[id]) ELSE Null

\* db.query(models.Card).filter(id == card_id, username == user).first()
FindCard(u, id) ==
    IF id \in DOMAIN cards /\ cards[id].username = u THEN Some(cards[id]) ELSE Null

\* db.add(row); db.commit()
AddCard(row) ==
    [i \in DOMAIN cards \cup {row.id} |-> IF i = row.id THEN row ELSE cards[i]]

\* variant: next_study is left to the column, which has no default
NewCardUnscheduled(id, u, card, t) ==
    [id |-> id,
     front |-> Some(card.front),
     back |-> Some(card.back),
     tags |-> Some(card.tags),
     category_id |-> Some(card.category_id),
     username |-> u,
     created_at |-> ImportTime,
     study_count |-> 0,
     next_study |-> Null]

\* models.Card(**card.dict(), username=..., next_study=datetime.now(timezone.utc))
NewCard(id, u, card, t) ==
    [id |-> id,
     front |-> Some(card.front),
     back |-> Some(card.back),
     tags |-> Some(card.tags),
     category_id |-> Some(card.category_id),
     username |-> u,
     created_at |-> ImportTime,
     study_count |-> 0,
     next_study |-> Some(t)]

(* ------------------------------ Init ---------------------------------- *)
Init ==
    /\ cards = [i \in {} |-> i]
    /\ categories = {}
    /\ now = 0
    /\ response = NoResponse
    /\ sessions = [h \in {} |-> h]

(* ------------------------------ clock --------------------------------- *)
Tick ==
    /\ now' = now + 1
    /\ UNCHANGED <<cards, categories, response, sessions>>

(* ---------------------------- categories ------------------------------ *)
create_category(u) ==
    /\ categories' = categories \cup {NewId(categories)}
    /\ response' = Ok([id |-> NewId(categories)])
    /\ UNCHANGED <<cards, now, sessions>>

(* ------------------------------ cards --------------------------------- *)
create_card(u, card) ==
    /\ IF card.category_id \notin categories
       THEN /\ response' = HTTPException(404, "Category not found")
            /\ UNCHANGED cards
       ELSE LET db_card == NewCard(NewId(DOMAIN cards), u, card, now)
            IN /\ cards' = AddCard(db_card)
               /\ response' = Ok([card |-> db_card])
    /\ UNCHANGED <<categories, now, sessions>>

\* the card's tags column holds a list with the element tag
\* (models.Card.tags.contains([tag]); tag lists here have at most one element)
HasTag(row, tag) ==
    /\ row.tags # Null
    /\ \E i \in 1..Len(row.tags[1]) : row.tags[1][i] = tag

\* variant: the owner is not part of the query
FilteredAnyOwner(u, category_id, tag) ==
    {cards[i] : i \in {j \in DOMAIN cards :
        /\ (category_id # Null /\ category_id[1] # 0) => cards[j].category_id = category_id
        /\ (tag # Null /\ tag[1] # "") => HasTag(cards[j], tag[1])}}

\* the rows the query of list_cards selects: the caller's cards, narrowed by
\* category_id and tag when the parameter is given and truthy
Filtered(u, category_id, tag) ==
    {cards[i] : i \in {j \in DOMAIN cards :
        /\ cards[j].username = u
        /\ (category_id # Null /\ category_id[1] # 0) => cards[j].category_id = category_id
        /\ (tag # Null /\ tag[1] # "") => HasTag(cards[j], tag[1])}}

\* variant: one sort key, NULL read as the earliest time
DueBeforeNullFirst(a, b) ==
    LET key(r) == IF r.next_study = Null THEN 0 ELSE r.next_study[1]
    IN key(a) <= key(b)

\* ORDER BY next_study IS NULL ASC, next_study ASC: a is not placed after b
DueBefore(a, b) ==
    \/ a.next_study # Null /\ b.next_study = Null
    \/ a.next_study # Null /\ b.next_study # Null /\ a.next_study[1] <= b.next_study[1]
    \/ a.next_study = Null /\ b.next_study = Null

\* every sequence holding each row of rows once
Arrangements(rows) ==
    {s \in [1..Cardinality(rows) -> rows] : \A i, j \in DOMAIN s : i # j => s[i] # s[j]}

\* variant: the ORDER BY is dropped
QueryOrdersUnsorted(rows, study) == Arrangements(rows)

\* the orders in which the store may return the selected rows: any order
\* without ORDER BY, any order that respects the sort keys with it
QueryOrders(rows, study) ==
    {s \in Arrangements(rows) :
        study => \A i, j \in DOMAIN s : i < j => DueBefore(s[i], s[j])}

\* query.offset(skip).limit(limit).all()
Page(s, skip, limit) == SubSeq(s, skip + 1, Min(skip + limit, Len(s)))

\* variant: the page is cut from the unordered rows, then ordered
ListCardsPageFirst(u, study, category_id, tag, skip, limit) ==
    UNION {QueryOrders({Page(rows, skip, limit)[k] :
                           k \in 1..Len(Page(rows, skip, limit))}, study) :
              rows \in Arrangements(Filtered(u, category_id, tag))}

\* the bodies GET /cards/ may return: filter, then order, then paginate
ListCards(u, study, category_id, tag, skip, limit) ==
    {Page(results, skip, limit) :
        results \in QueryOrders(Filtered(u, category_id, tag), study)}

list_cards(u, study, category_id, tag, skip, limit) ==
    /\ \E results \in ListCards(u, study, category_id, tag, skip, limit) :
          response' = Ok([cards |-> results])
    /\ UNCHANGED <<cards, categories, now, sessions>>

\* the fields schemas.CardUpdate declares
CardUpdateFields == {"front", "back", "tags", "category_id", "next_study"}

\* variant: model_dump() without exclude_unset, unset fields dumped as None
ModelDumpWithUnset(payload) ==
    [f \in {"front", "back", "tags", "category_id", "next_study"} |->
        IF f \in DOMAIN payload THEN payload[f] ELSE Null]

\* variant: keys CardUpdate does not declare are kept
ModelDumpKeepsExtra(payload) == payload

\* card_update.model_dump(exclude_unset=True): the declared fields the
\* payload supplies; keys CardUpdate does not declare are dropped
ModelDump(payload) ==
    [f \in DOMAIN payload \cap CardUpdateFields |-> payload[f]]

\* variant: the row is replaced, declared fields the payload leaves out are cleared
SetAttrsReplace(row, update_data) ==
    [f \in DOMAIN row |->
        IF f \in DOMAIN update_data THEN update_data[f]
        ELSE IF f \in CardUpdateFields THEN Null ELSE row[f]]

\* for field, value in update_data.items(): setattr(db_card, field, value)
SetAttrs(row, update_data) ==
    [f \in DOMAIN row |-> IF f \in DOMAIN update_data THEN update_data[f] ELSE row[f]]

update_card(u, card_id, payload) ==
    /\ LET db_card == FindCard(u, card_id)
       IN IF db_card = Null
          THEN /\ response' = HTTPException(404, "Card not found")
               /\ UNCHANGED cards
          ELSE LET row == SetAttrs(db_card[1], ModelDump(payload))
               IN /\ cards' = [cards EXCEPT ![card_id] = row]
                  /\ response' = Ok([card |-> row])
    /\ UNCHANGED <<categories, now, sessions>>

delete_card(u, card_id) ==
    /\ IF FindCard(u, card_id) = Null
       THEN /\ response' = HTTPException(404, "Card not found")
            /\ UNCHANGED cards
       ELSE /\ cards' = [i \in DOMAIN cards \ {card_id} |-> cards[i]]
            /\ response' = Ok([message |-> "Card deleted successfully"])
    /\ UNCHANGED <<categories, now, sessions>>

(* ---------------------------- scheduling ------------------------------ *)
\* variant: the interval is not capped
NextIntervalUncapped(study_count, days_multiplier) ==
    (study_count - 1) * days_multiplier

\* variant: the multiplier divides instead of multiplying
NextIntervalDivided(study_count, days_multiplier) ==
    Min(days_multiplier \div (study_count - 1), MaxIntervalDays)

\* min((study_count - 1) * days_multiplier, 30)
NextInterval(study_count, days_multiplier) ==
    Min((study_count - 1) * days_multiplier, MaxIntervalDays)

\* variant: the increment is lost
IncrementLost(study_count) == study_count

\* db_card.study_count += 1
Increment(study_count) == study_count + 1

\* the outcomes of the scheduling step of record_study on the loaded row:
\* the advanced row and the multiplier drawn; one outcome, without a draw,
\* for a failure or a first attempt, one per value of randint(3, 5) otherwise
Attempt(row, success, t) ==
    LET study_count == Increment(row.study_count)
    IN IF ~success \/ study_count = 1
       THEN {[row |-> [row EXCEPT !.study_count = study_count,
                                  !.next_study = Some(NextDayStart(t))],
              days_multiplier |-> Null]}
       ELSE {[row |-> [row EXCEPT !.study_count = study_count,
                                  !.next_study =
                                      Some(t + Days(NextInterval(study_count, days_multiplier)))],
              days_multiplier |-> Some(days_multiplier)] :
                days_multiplier \in MinMultiplier..MaxMultiplier}

\* the rows the scheduling step may leave for the loaded row
RecordAttempt(row, success, t) ==
    {attempt.row : attempt \in Attempt(row, success, t)}

record_study(u, card_id, study_data) ==
    /\ IF "success" \notin DOMAIN study_data
       THEN /\ response' = HTTPException(400, "success field is required")
            /\ UNCHANGED cards
       ELSE LET db_card == FindCard(u, card_id)
            IN IF db_card = Null
               THEN /\ response' = HTTPException(404, "Card not found")
                    /\ UNCHANGED cards
               ELSE /\ response' = Ok([message |-> "Study recorded successfully"])
                    /\ \E row \in RecordAttempt(db_card[1], study_data.success, now) :
                          cards' = [cards EXCEPT ![card_id] = row]
    /\ UNCHANGED <<categories, now, sessions>>

(* ------------- record_study handled while other requests run --------- *)
\* a request's session and locals: the caller, the card asked for, the
\* outcome given, the row the query loaded (NULL when refused) as the handler
\* has advanced it, the handler's now and days_multiplier (NULL until
\* assigned), whether the handler still has to write ("loaded") or has
\* returned ("done"), and the status returned
Session(u, card_id, success, db_card, pc, status) ==
    [username |-> u, card_id |-> card_id, success |-> success,
     db_card |-> db_card, now |-> Null, days_multiplier |-> Null,
     pc |-> pc, status |-> status]

\* the requests that have loaded their card and not yet committed
Loaded == {h \in DOMAIN sessions : sessions[h].pc = "loaded"}

\* record_study up to the 404 check: the payload is checked and the card is
\* loaded into the request's own session
record_study_load(h, u, card_id, study_data) ==
    /\ h \notin DOMAIN sessions
    /\ LET start(db_card, success, pc, status) ==
               [k \in DOMAIN sessions \cup {h} |->
                   IF k = h THEN Session(u, card_id, success, db_card, pc, status)
                            ELSE sessions[k]]
       IN IF "success" \notin DOMAIN study_data
          THEN /\ response' = HTTPException(400, "success field is required")
               /\ sessions' = start(Null, FALSE, "done", 400)
          ELSE LET db_card == FindCard(u, card_id)
               IN IF db_card = Null
                  THEN /\ response' = HTTPException(404, "Card not found")
                       /\ sessions' = start(Null, study_data.success, "done", 404)
                  ELSE /\ sessions' = start(db_card, study_data.success, "loaded", 0)
                       /\ UNCHANGED response
    /\ UNCHANGED <<cards, categories, now>>

\* db.commit(): UPDATE cards SET study_count = ?, next_study = ? WHERE id = ?
\* with the values computed from the loaded row
Commit(stored, row) ==
    [stored EXCEPT !.study_count = row.study_count, !.next_study = row.next_study]

\* record_study from the increment on: the loaded row is advanced and its
\* study_count and next_study are written to the store; a row deleted in
\* the meantime makes the UPDATE match nothing and the request fail
record_study_commit(h) ==
    /\ h \in Loaded
    /\ LET session == sessions[h]
       IN IF session.card_id \notin DOMAIN cards
          THEN /\ response' = HTTPException(500, "Internal Server Error")
               /\ sessions' = [sessions EXCEPT ![h].pc = "done", ![h].status = 500]
               /\ UNCHANGED cards
          ELSE /\ response' = Ok([message |-> "Study recorded successfully"])
               /\ \E attempt \in Attempt(session.db_card[1], session.success, now) :
                     /\ cards' = [cards EXCEPT ![session.card_id] =
                                     Commit(cards[session.card_id], attempt.row)]
                     /\ sessions' = [sessions EXCEPT
                                        ![h].db_card = Some(attempt.row),
                                        ![h].now = Some(now),
                                        ![h].days_multiplier = attempt.days_multiplier,
                                        ![h].pc = "done",
                                        ![h].status = 200]
    /\ UNCHANGED <<categories, now>>

(* ------------------------- request payloads --------------------------- *)
\* study_data: the JSON body of POST /cards/{id}/study
StudyPayloads == {EmptyDict, [success |-> TRUE], [success |-> FALSE]}

\* schemas.CardCreate bodies naming one of the category ids
CardCreates(category_ids) ==
    [front : {"q"}, back : {"a"}, tags : {<<"t">>}, category_id : category_ids]

\* JSON bodies of PUT /cards/{id}; study_count is a key CardUpdate does not declare
UpdatePayloads ==
    {[next_study |-> Null],
     [next_study |-> Some(0)],
     [study_count |-> 0]}

\* the defaults of list_cards' skip and limit parameters
DefaultSkip == 0
DefaultLimit == 100

\* the request would be recorded and the card has fewer than max attempts:
\* caps study_count, refusals are never held back
Below(max, u, id, study_data) ==
    ("success" \in DOMAIN study_data /\ FindCard(u, id) # Null)
        => FindCard(u, id)[1].study_count < max

(* --------------------- Spec: the API, all handlers -------------------- *)
Next ==
    \/ now < MaxNow /\ Tick
    \/ \E u \in Users :
          Cardinality(categories) < MaxCategories /\ create_category(u)
    \/ \E u \in Users, card \in CardCreates(1..MaxCategories) :
          NewId(DOMAIN cards) <= MaxCards /\ create_card(u, card)
    \/ \E u \in Users, study \in BOOLEAN :
          list_cards(u, study, Null, Null, DefaultSkip, DefaultLimit)
    \/ \E u \in Users, id \in 1..MaxCards, payload \in UpdatePayloads :
          update_card(u, id, payload)
    \/ \E u \in Users, id \in 1..MaxCards :
          delete_card(u, id)
    \/ \E u \in Users, id \in 1..MaxCards, study_data \in StudyPayloads :
          /\ Below(MaxStudy, u, id, study_data)
          /\ record_study(u, id, study_data)

Spec == Init /\ [][Next]_vars

\* the category the narrower specifications create and file cards under
OneCategory == {1}

(* ------------ SpecSched: a single card, studied many times ----------- *)
SchedCardIds == {1}

\* JSON bodies of PUT /cards/{id} that also change the card's text
SchedUpdatePayloads ==
    UpdatePayloads \cup {[front |-> Some("q2"), back |-> Null, study_count |-> 7]}

NextSched ==
    \/ now < MaxDeepNow /\ Tick
    \/ \E u \in Users :
          NewId(categories) \in OneCategory /\ create_category(u)
    \/ \E u \in Users, card \in CardCreates(OneCategory) :
          NewId(DOMAIN cards) \in SchedCardIds /\ create_card(u, card)
    \/ \E u \in Users, id \in SchedCardIds, payload \in SchedUpdatePayloads :
          update_card(u, id, payload)
    \/ \E u \in Users, id \in SchedCardIds :
          delete_card(u, id)
    \/ \E u \in Users, id \in SchedCardIds, study_data \in StudyPayloads :
          /\ Below(MaxDeepStudy, u, id, study_data)
          /\ record_study(u, id, study_data)

SpecSched == Init /\ [][NextSched]_vars

(* ------------- SpecList: cards filed, rescheduled and listed ---------- *)
\* JSON bodies of PUT /cards/{id} that clear or set the schedule, or move
\* the card to category 2 and drop its tags
ListUpdatePayloads ==
    {[next_study |-> Null],
     [next_study |-> Some(1)],
     [category_id |-> Some(2), tags |-> Some(<<>>)]}

\* the query parameters of GET /cards/
ListCategoryIds == {Null, Some(0), Some(1)}
ListTags == {Null, Some("t")}
ListSkips == 0..MaxListCards
ListLimits == 0..MaxListCards

\* the pages the listings of SpecList ask for: everything, or the second card
ListPages == {[skip |-> DefaultSkip, limit |-> DefaultLimit], [skip |-> 1, limit |-> 1]}

NextList ==
    \/ \E u \in Users :
          NewId(categories) \in OneCategory /\ create_category(u)
    \/ \E u \in Users, card \in CardCreates(OneCategory) :
          NewId(DOMAIN cards) <= MaxListCards /\ create_card(u, card)
    \/ \E u \in Users, id \in 1..MaxListCards, payload \in ListUpdatePayloads :
          update_card(u, id, payload)
    \/ \E u \in Users, study \in BOOLEAN, page \in ListPages :
          list_cards(u, study, Null, Null, page.skip, page.limit)

SpecList == Init /\ [][NextList]_vars

(* -------- SpecDue: cards created and studied as the clock advances ---- *)
NextDue ==
    \/ now < MaxDueNow /\ Tick
    \/ \E u \in Users :
          NewId(categories) \in OneCategory /\ create_category(u)
    \/ \E u \in Users, card \in CardCreates(OneCategory) :
          NewId(DOMAIN cards) <= MaxDueCards /\ create_card(u, card)
    \/ \E u \in Users, id \in 1..MaxDueCards, study_data \in StudyPayloads :
          /\ Below(MaxDueStudy, u, id, study_data)
          /\ record_study(u, id, study_data)
    \/ \E u \in Users :
          list_cards(u, TRUE, Null, Null, DefaultSkip, DefaultLimit)

SpecDue == Init /\ [][NextDue]_vars

(* ------ SpecOwn: two users' cards, edited, studied, listed, deleted ---- *)
\* JSON bodies of PUT /cards/{id}: one rewrites the front and names the
\* owner and the count, one clears the schedule and names the id and the
\* creation time; username, study_count, id and created_at are keys
\* CardUpdate does not declare
OwnUpdatePayloads ==
    {[front |-> Some("q2"), username |-> "bob", study_count |-> 7],
     [next_study |-> Null, id |-> 2, created_at |-> 5]}

\* the card ids the two users' requests create and address
OwnCardIds == {1, 2}

NextOwn ==
    \/ \E u \in Users :
          NewId(categories) \in OneCategory /\ create_category(u)
    \/ \E u \in Users, card \in CardCreates(OneCategory) :
          NewId(DOMAIN cards) \in OwnCardIds /\ create_card(u, card)
    \/ \E u \in Users, id \in OwnCardIds, payload \in OwnUpdatePayloads :
          update_card(u, id, payload)
    \/ \E u \in Users, id \in OwnCardIds :
          delete_card(u, id)
    \/ \E u \in Users, id \in OwnCardIds, study_data \in StudyPayloads :
          /\ Below(MaxOwnStudy, u, id, study_data)
          /\ record_study(u, id, study_data)
    \/ \E u \in Users, study \in BOOLEAN :
          list_cards(u, study, Null, Null, DefaultSkip, DefaultLimit)

SpecOwn == Init /\ [][NextOwn]_vars

(* ----- SpecConc: requests to study one card, handled concurrently ----- *)
NextConc ==
    \/ now < MaxConcNow /\ Tick
    \/ \E u \in Users :
          NewId(categories) \in OneCategory /\ create_category(u)
    \/ \E u \in Users, card \in CardCreates(OneCategory) :
          NewId(DOMAIN cards) \in SchedCardIds /\ create_card(u, card)
    \/ \E u \in Users, id \in SchedCardIds, study_data \in StudyPayloads :
          /\ NewId(DOMAIN sessions) <= MaxHandlers
          /\ record_study_load(NewId(DOMAIN sessions), u, id, study_data)
    \/ \E h \in 1..MaxHandlers :
          record_study_commit(h)

SpecConc == Init /\ [][NextConc]_vars

(* --- SpecPolicy: one user's two cards studied, one request at a time --- *)
PolicyUser == "alice"
PolicyCardIds == {1, 2}

\* study_data that is accepted
PolicyPayloads == {[success |-> TRUE], [success |-> FALSE]}

NextPolicy ==
    \/ NewId(categories) \in OneCategory /\ create_category(PolicyUser)
    \/ \E card \in CardCreates(OneCategory) :
          NewId(DOMAIN cards) \in PolicyCardIds /\ create_card(PolicyUser, card)
    \/ \E id \in PolicyCardIds, study_data \in PolicyPayloads :
          /\ Loaded = {}
          /\ NewId(DOMAIN sessions) <= MaxPolicyHandlers
          /\ record_study_load(NewId(DOMAIN sessions), PolicyUser, id, study_data)
    \/ \E h \in 1..MaxPolicyHandlers :
          record_study_commit(h)

SpecPolicy == Init /\ [][NextPolicy]_vars

(* ============================== claims ================================ *)
Max(a, b) == IF a >= b THEN a ELSE b

\* the card ids requests address
RequestIds == 1..MaxCards

\* the request passes record_study's checks: the payload has a success
\* field, the card exists and the caller owns it
Accepted(u, id, study_data) ==
    /\ "success" \in DOMAIN study_data
    /\ id \in DOMAIN cards
    /\ cards[id].username = u

StudyRecorded == response = Ok([message |-> "Study recorded successfully"])

\* C1: every accepted record_study answers 200 and leaves the card's
\* study_count exactly 1 higher than before, whatever the outcome
C1_StudyCountIncrements ==
    [][\A u \in Users, id \in SchedCardIds, study_data \in StudyPayloads :
          (Accepted(u, id, study_data) /\ record_study(u, id, study_data))
              => /\ response'.status = 200
                 /\ cards'[id].study_count = cards[id].study_count + 1]_vars

\* a second attempt, a failure, has been recorded
C1_Witness ==
    /\ StudyRecorded
    /\ \E id \in DOMAIN cards :
          /\ cards[id].study_count = 2
          /\ cards[id].next_study = Some(NextDayStart(now))

\* C2: an accepted record_study that failed, or that was the card's first,
\* sets next_study to the start of the UTC day following now
C2_NextDayStart ==
    [][\A u \in Users, id \in SchedCardIds, study_data \in StudyPayloads :
          (/\ Accepted(u, id, study_data)
           /\ record_study(u, id, study_data)
           /\ (~study_data.success \/ cards'[id].study_count = 1))
              => /\ cards'[id].next_study # Null
                 /\ LET t == cards'[id].next_study[1]
                    IN /\ t % TicksPerDay = 0
                       /\ now < t
                       /\ t <= now + TicksPerDay]_vars

\* a third or later attempt, made in the middle of a day, has failed and the
\* card is due at the next midnight
C2_Witness ==
    /\ StudyRecorded
    /\ now % TicksPerDay # 0
    /\ \E id \in DOMAIN cards :
          /\ cards[id].study_count >= 3
          /\ cards[id].next_study = Some(now + (TicksPerDay - (now % TicksPerDay)))

\* C3: an accepted successful record_study with post-increment count n > 1
\* sets next_study to now + min((n-1)*m, 30) days for an m in 3..5, so the
\* interval lies in [max(1, min((n-1)*3, 30)), min((n-1)*5, 30)] days
C3_SuccessInterval ==
    [][\A u \in Users, id \in SchedCardIds, study_data \in StudyPayloads :
          (/\ Accepted(u, id, study_data)
           /\ record_study(u, id, study_data)
           /\ study_data.success
           /\ cards'[id].study_count > 1)
              => LET n == cards'[id].study_count
                     d == cards'[id].next_study[1] - now
                 IN /\ cards'[id].next_study # Null
                    /\ \E m \in 3..5 : d = Min((n - 1) * m, 30) * TicksPerDay
                    /\ d >= Max(1, Min((n - 1) * 3, 30)) * TicksPerDay
                    /\ d <= Min((n - 1) * 5, 30) * TicksPerDay
                    /\ d <= 30 * TicksPerDay]_vars

\* a late success in the middle of a day, its interval capped at 30 days
C3_Witness ==
    /\ StudyRecorded
    /\ now % TicksPerDay # 0
    /\ \E id \in DOMAIN cards :
          /\ cards[id].study_count >= 8
          /\ cards[id].next_study = Some(now + 30 * TicksPerDay)

\* the cards a step creates, and those it keeps
Created == DOMAIN cards' \ DOMAIN cards
Kept == DOMAIN cards' \cap DOMAIN cards

\* the step is an accepted record_study on card id
StudiedBy(id) ==
    \E u \in Users, study_data \in StudyPayloads :
        Accepted(u, id, study_data) /\ record_study(u, id, study_data)

C7_StudyCountMonotone ==
    [][/\ \A id \in Created : cards'[id].study_count = 0
       /\ \A id \in Kept :
             \/ cards'[id].study_count = cards[id].study_count
             \/ /\ cards'[id].study_count = cards[id].study_count + 1
                /\ StudiedBy(id)]_vars

\* an update whose payload names study_count has been answered for a card
\* studied three times, and the count stands
C7_Witness ==
    /\ response.status = 200
    /\ "card" \in DOMAIN response.body
    /\ response.body.card.front = Some("q2")
    /\ response.body.card.study_count = 3
    /\ response.body.card.id \in DOMAIN cards
    /\ cards[response.body.card.id] = response.body.card

\* C8 as stated: a kept card's next_study and study_count change only in an
\* accepted record_study on that card
C8_Original ==
    [][\A id \in Kept :
          (\/ cards'[id].next_study # cards[id].next_study
           \/ cards'[id].study_count # cards[id].study_count)
              => StudiedBy(id)]_vars

\* the step is an accepted update_card on card id whose payload supplies next_study
RescheduledByUpdate(id) ==
    \E u \in Users, payload \in SchedUpdatePayloads :
        /\ "next_study" \in DOMAIN payload
        /\ cards[id].username = u
        /\ update_card(u, id, payload)

\* C8 amended: study_count changes only in an accepted record_study on the
\* card; next_study changes only in an accepted record_study on the card or
\* in an accepted update_card on it whose payload supplies next_study
C8_SchedulingMutators ==
    [][\A id \in Kept :
          /\ cards'[id].study_count # cards[id].study_count => StudiedBy(id)
          /\ cards'[id].next_study # cards[id].next_study
                => (StudiedBy(id) \/ RescheduledByUpdate(id))]_vars

\* an update has cleared the next_study of a studied card
C8_Witness ==
    /\ response.status = 200
    /\ "card" \in DOMAIN response.body
    /\ response.body.card.next_study = Null
    /\ response.body.card.study_count = 1
    /\ response.body.card.id \in DOMAIN cards
    /\ cards[response.body.card.id] = response.body.card

\* C9: a record_study whose payload has no success field is answered 400;
\* one that has it but names no card of the caller's (no such id, or another
\* user's card) is answered 404; either way no card is changed
C9_RejectedStudy ==
    [][\A u \in Users, id \in RequestIds, study_data \in StudyPayloads :
          (~Accepted(u, id, study_data) /\ record_study(u, id, study_data))
              => /\ cards' = cards
                 /\ response'.status =
                       IF "success" \notin DOMAIN study_data THEN 400 ELSE 404]_vars

\* a request without the success field was refused after a card was studied
C9_Witness ==
    /\ response = HTTPException(400, "success field is required")
    /\ \E id \in DOMAIN cards : cards[id].study_count = 1

\* a is placed before b in a list only if b has no next_study, or both have
\* one and a's is not the later
InDueOrder(page) ==
    \A i, j \in DOMAIN page :
        i < j => \/ page[j].next_study = Null
                 \/ /\ page[i].next_study # Null
                    /\ page[j].next_study # Null
                    /\ page[i].next_study[1] <= page[j].next_study[1]

\* C4: in every study-mode listing, whatever the filters and the page, cards
\* without next_study come after all cards with one, and the cards with one
\* are in non-decreasing next_study order
C4_DueOrdering ==
    \A u \in Users, category_id \in ListCategoryIds, tag \in ListTags :
        \A skip \in {DefaultSkip, 1}, limit \in {MaxListCards, DefaultLimit} :
            \A page \in ListCards(u, TRUE, category_id, tag, skip, limit) :
                InDueOrder(page)

\* a study-mode listing was answered in which the sort moved a card ahead
\* of an older one whose next_study is unset
C4_Witness ==
    /\ response.status = 200
    /\ "cards" \in DOMAIN response.body
    /\ LET page == response.body.cards
       IN /\ Len(page) = 2
          /\ page \in ListCards(page[1].username, TRUE, Null, Null,
                                DefaultSkip, DefaultLimit)
          /\ page[1].id > page[2].id
          /\ page[1].next_study # Null
          /\ page[2].next_study = Null

\* the cards of u that pass the category and tag filters a request gives
Matching(u, category_id, tag) ==
    {cards[i] : i \in {j \in DOMAIN cards :
        /\ cards[j].username = u
        /\ category_id \in {Null, Some(0)} \/ cards[j].category_id = category_id
        /\ tag = Null \/ (cards[j].tags # Null /\
                             \E k \in DOMAIN cards[j].tags[1] : cards[j].tags[1][k] = tag[1])}}

\* the sequences that list every row of rows once, in due order if study
FullLists(rows, study) ==
    {full \in [1..Cardinality(rows) -> rows] :
        /\ \A r \in rows : \E k \in DOMAIN full : full[k] = r
        /\ study => InDueOrder(full)}

\* positions skip+1 .. skip+limit of full, as far as it reaches
Slice(full, skip, limit) ==
    [k \in 1..Min(limit, Max(0, Len(full) - skip)) |-> full[skip + k]]

\* C10: every listing is the elements at positions skip .. skip+limit-1 of
\* the caller's cards that match the filters, in due order when study is
\* set; so it has min(limit, max(0, n - skip)) cards
C10_PageOfFiltered ==
    \A u \in Users, study \in BOOLEAN, category_id \in ListCategoryIds, tag \in ListTags :
        LET rows == Matching(u, category_id, tag)
            fulls == FullLists(rows, study)
        IN \A skip \in ListSkips, limit \in ListLimits :
              LET slices == {Slice(full, skip, limit) : full \in fulls}
              IN \A page \in ListCards(u, study, category_id, tag, skip, limit) :
                    /\ Len(page) = Min(limit, Max(0, Cardinality(rows) - skip))
                    /\ page \in slices

\* a page of one card was answered, cut after the first of two cards whose
\* due order differs from their order of creation
C10_Witness ==
    /\ response.status = 200
    /\ "cards" \in DOMAIN response.body
    /\ LET page == response.body.cards
       IN /\ Len(page) = 1
          /\ page \in ListCards(page[1].username, TRUE, Null, Null, 1, 1)
          /\ page[1].next_study = Null
          /\ \E id \in DOMAIN cards :
                /\ id > page[1].id
                /\ cards[id].username = page[1].username
                /\ cards[id].next_study # Null

\* C6 as stated: in a study-mode listing every never-studied card comes
\* before every card studied at least once
C6_Original ==
    \A u \in Users :
        \A page \in ListCards(u, TRUE, Null, Null, DefaultSkip, DefaultLimit) :
            \A i, j \in DOMAIN page :
                (page[i].study_count = 0 /\ page[j].study_count >= 1) => i < j

\* C6 amended: in a study-mode listing every never-studied card comes before
\* every studied card that is not yet due (whose next_study is later than now)
C6_UnstudiedBeforeNotDue ==
    \A u \in Users :
        \A page \in ListCards(u, TRUE, Null, Null, DefaultSkip, DefaultLimit) :
            \A i, j \in DOMAIN page :
                (/\ page[i].study_count = 0
                 /\ page[j].study_count >= 1
                 /\ page[j].next_study # Null
                 /\ page[j].next_study[1] > now) => i < j

\* a listing was answered in which a never-studied card, created after the
\* studied one, comes first
C6_Witness ==
    /\ response.status = 200
    /\ "cards" \in DOMAIN response.body
    /\ LET page == response.body.cards
       IN /\ Len(page) = 2
          /\ page[1].study_count = 0
          /\ page[2].study_count = 1
          /\ page[1].id > page[2].id
          /\ page[2].next_study[1] > now
          /\ \A k \in DOMAIN page : cards[page[k].id] = page[k]

\* the card id exists and the caller owns it
Owns(u, id) == id \in DOMAIN cards /\ cards[id].username = u

\* C11: an accepted update_card is answered 200, gives every field that is
\* both declared by CardUpdate and present in the payload the payload's
\* value, leaves every other field of the card (id, username, created_at and
\* study_count always) as it was, and changes or removes no other card
C11_UpdateFrame ==
    [][\A u \in Users, id \in OwnCardIds, payload \in OwnUpdatePayloads :
          (Owns(u, id) /\ update_card(u, id, payload))
              => /\ response'.status = 200
                 /\ DOMAIN cards' = DOMAIN cards
                 /\ \A other \in DOMAIN cards \ {id} : cards'[other] = cards[other]
                 /\ \A f \in {"front", "back", "tags", "category_id", "next_study"} :
                       cards'[id][f] = IF f \in DOMAIN payload THEN payload[f]
                                                              ELSE cards[id][f]
                 /\ \A f \in {"id", "username", "created_at", "study_count"} :
                       cards'[id][f] = cards[id][f]]_vars

\* an update that rewrote only the front of a studied card has been answered
\* while the other user's card stands
C11_Witness ==
    /\ response.status = 200
    /\ "card" \in DOMAIN response.body
    /\ LET row == response.body.card
       IN /\ row.front = Some("q2")
          /\ row.back = Some("a")
          /\ row.study_count = 1
          /\ row.next_study # Null
          /\ row.id \in DOMAIN cards
          /\ cards[row.id] = row
          /\ \E other \in DOMAIN cards : cards[other].username # row.username

\* the requests to study card id that have returned success
Returned(id) ==
    {h \in DOMAIN sessions :
        /\ sessions[h].card_id = id
        /\ sessions[h].pc = "done"
        /\ sessions[h].status = 200}

\* C12: when every record_study request taken up for a card has returned,
\* the card's study_count is higher than at its creation (0) by exactly the
\* number of those requests that returned success
C12_NoLostIncrement ==
    \A id \in DOMAIN cards :
        (\A h \in Loaded : sessions[h].card_id # id)
            => cards[id].study_count = Cardinality(Returned(id))

\* the requests that were recorded, and among them the successful ones that
\* were not the card's first attempt
Recorded == {h \in DOMAIN sessions : sessions[h].pc = "done" /\ sessions[h].status = 200}
LaterSuccesses ==
    {h \in Recorded : sessions[h].success /\ sessions[h].db_card[1].study_count > 1}

\* next_study - now as request h assigned it, in ticks
IntervalOf(h) == sessions[h].db_card[1].next_study[1] - sessions[h].now[1]

\* the requests recorded for h's card before h, and the successful ones
PriorAttempts(h) ==
    {g \in Recorded : g < h /\ sessions[g].card_id = sessions[h].card_id}
PriorSuccesses(h) == {g \in PriorAttempts(h) : sessions[g].success}

\* g and h are successful later attempts on one card, h the next recorded after g
Consecutive(g, h) ==
    /\ g \in LaterSuccesses
    /\ h \in LaterSuccesses
    /\ g \in PriorAttempts(h)
    /\ \A k \in PriorAttempts(h) : k <= g

\* C13 as stated: of two consecutive successful attempts on a card, neither
\* the first, the later is given an interval at least as long as the
\* earlier, whatever multipliers are drawn; and two such attempts with the
\* same number of prior successes and the same multiplier are given the
\* same interval, however many failures came before
C13_Original ==
    /\ \A g, h \in DOMAIN sessions :
          Consecutive(g, h) => IntervalOf(h) >= IntervalOf(g)
    /\ \A g, h \in LaterSuccesses :
          (/\ Cardinality(PriorSuccesses(g)) = Cardinality(PriorSuccesses(h))
           /\ sessions[g].days_multiplier = sessions[h].days_multiplier)
              => IntervalOf(g) = IntervalOf(h)

\* C13 amended: of two consecutive successful attempts on a card, neither the
\* first, the later is given an interval at least as long as the earlier
\* when its multiplier is not the smaller; and two such attempts that leave
\* the same study_count, the count of recorded attempts failed ones
\* included, and draw the same multiplier are given the same interval
C13_IntervalGrowsWithAttempts ==
    /\ \A g, h \in DOMAIN sessions :
          (/\ Consecutive(g, h)
           /\ sessions[h].days_multiplier[1] >= sessions[g].days_multiplier[1])
              => IntervalOf(h) >= IntervalOf(g)
    /\ \A g, h \in LaterSuccesses :
          (/\ sessions[g].db_card[1].study_count = sessions[h].db_card[1].study_count
           /\ sessions[g].days_multiplier = sessions[h].days_multiplier)
              => IntervalOf(g) = IntervalOf(h)

\* a success followed by one with the same multiplier and a longer interval,
\* and a success on the other card that left the same study_count as the
\* first of the two after fewer successes, with the same multiplier and
\* interval
C13_Witness ==
    \E g, h, k \in LaterSuccesses :
        /\ Consecutive(g, h)
        /\ sessions[h].days_multiplier = sessions[g].days_multiplier
        /\ IntervalOf(h) > IntervalOf(g)
        /\ sessions[k].card_id # sessions[g].card_id
        /\ sessions[k].db_card[1].study_count = sessions[g].db_card[1].study_count
        /\ Cardinality(PriorSuccesses(k)) < Cardinality(PriorSuccesses(g))
        /\ sessions[k].days_multiplier = sessions[g].days_multiplier
        /\ IntervalOf(k) = IntervalOf(g)

\* the card id exists and belongs to another user than the caller
Foreign(u, id) == id \in DOMAIN cards /\ cards[id].username # u

\* the step leaves every card that is not u's in the store, as it was
OthersKept(u) ==
    \A id \in DOMAIN cards :
        cards[id].username # u => (id \in DOMAIN cards' /\ cards'[id] = cards[id])

\* the step answers u's list_cards with cards of u only
ListsOwn(u) ==
    \A study \in BOOLEAN :
        list_cards(u, study, Null, Null, DefaultSkip, DefaultLimit)
            => \A k \in DOMAIN response'.body.cards :
                  response'.body.cards[k].username = u

\* the step, if it is u's update_card or delete_card on card id, keeps the
\* others' cards, and is answered 404 without a change when id is another's
EditsOwn(u, id) ==
    /\ \A payload \in OwnUpdatePayloads :
          update_card(u, id, payload)
              => /\ OthersKept(u)
                 /\ Foreign(u, id) => (response'.status = 404 /\ cards' = cards)
    /\ delete_card(u, id)
          => /\ OthersKept(u)
             /\ Foreign(u, id) => (response'.status = 404 /\ cards' = cards)

\* C14 as stated: a list_cards response for u holds only cards of u; an
\* update_card, delete_card or record_study request of u changes and removes
\* no card of another user, and on another user's card it is answered 404
\* and leaves the store unchanged
C14_Original ==
    [][\A u \in Users :
          /\ ListsOwn(u)
          /\ \A id \in OwnCardIds :
                /\ EditsOwn(u, id)
                /\ \A study_data \in StudyPayloads :
                      record_study(u, id, study_data)
                          => /\ OthersKept(u)
                             /\ Foreign(u, id)
                                   => (response'.status = 404 /\ cards' = cards)]_vars

\* C14 amended: as stated, except that a record_study request on another
\* user's card whose payload has no success field is answered 400, not 404
C14_OwnershipIsolation ==
    [][\A u \in Users :
          /\ ListsOwn(u)
          /\ \A id \in OwnCardIds :
                /\ EditsOwn(u, id)
                /\ \A study_data \in StudyPayloads :
                      record_study(u, id, study_data)
                          => /\ OthersKept(u)
                             /\ Foreign(u, id)
                                   => /\ cards' = cards
                                      /\ response'.status =
                                            IF "success" \in DOMAIN study_data
                                            THEN 404 ELSE 400]_vars

\* a request was answered 404 for a card although every card id is in the
\* store: the card asked for was the other user's, and it stands studied
C14_Witness ==
    /\ response = HTTPException(404, "Card not found")
    /\ DOMAIN cards = OwnCardIds
    /\ \A u \in Users : \E id \in DOMAIN cards : cards[id].username = u
    /\ \E id \in DOMAIN cards : cards[id].study_count = 1
====
